---- MODULE Spec2Model ----
(***************************************************************************)
(* AutoBackupPlugin (src/main.py): the archive operation _create_backup,   *)
(* the retention step _cleanup_old_backups, the scheduler coroutine        *)
(* _scheduled_backup_task, the manual command and initialize/terminate.    *)
(*                                                                         *)
(* _create_backup runs in worker threads (asyncio.to_thread), so its steps *)
(* interleave with those of other runs; the coroutines run on one event    *)
(* loop, so each of their steps is the code between two awaits.            *)
(* Time is a clock in seconds; the steps of the program take no time and   *)
(* Tick lets time pass.                                                    *)
(***************************************************************************)
EXTENDS Integers, Sequences, FiniteSets, TLC

\* ---------------------------------------------------------------- bounds
MaxRuns == 2        \* archive operations started in one behaviour
MaxOld == 2         \* archives already in the destination directory
MaxTime == 61       \* Spec: the clock is not advanced from here on
MaxLifeTime == 180  \* SpecLifecycle: the clock is not advanced from here on
MaxRunSeconds == 61 \* SpecLifecycle: the longest step of an archive operation
MaxFine == 1        \* one-second ticks in one behaviour
MaxTerminate == 2   \* calls of terminate in one behaviour
MaxFiles == 3       \* files under the root directory, the destination's apart

\* ------------------------------------------------------ program constants
SleepIncrement == 60
Cooldown == 3600

VARIABLES
    now,              \* datetime.now(), seconds
    fine,             \* one-second ticks taken so far
    dir,              \* the destination directory: file name -> [mtime, closed]
    max_backups,      \* config "max_backups"
    cron_expression,  \* config "cron_expression"
    stop_backup,      \* self._stop_backup
    run,              \* the archive operations: id -> the thread's locals
    started,          \* archive operations started so far
    task,             \* self.backup_task: the scheduler coroutine
    cancelReq,        \* backup_task.cancel() was called and is not delivered yet
    term,             \* terminate(): its position, its calls so far
    stopAt,           \* the time and scheduler position of the first terminate
    tree,             \* the files under self.astrbot_path, the destination's apart
    dest,             \* _get_backup_path(), as a path relative to astrbot_path
    walk,             \* of each _create_backup: os.walk's pending directories,
                      \* and the entries written to the archive
    reply             \* the last first reply of manual_backup

vars == <<now, fine, dir, max_backups, cron_expression, stop_backup, run,
          started, task, cancelReq, term, stopAt, tree, dest, walk, reply>>

clockVars == <<now, fine>>
configVars == <<max_backups, cron_expression>>
schedVars == <<stop_backup, task, cancelReq, term, stopAt>>
walkVars == <<tree, dest, walk>>

RunIds == 1..MaxRuns

\* ------------------------------------------------------------ file names
\* A file name is a sequence of tokens.
Prefix == <<"astrbot_backup_">>
Suffix == <<".zip">>

\* strftime("%Y%m%d_%H%M%S") of a time of the first day: hours, minutes, seconds
Strftime(t) == <<(t \div 3600) % 24, (t \div 60) % 60, t % 60>>

GenerateBackupFilename(t) == Prefix \o Strftime(t) \o Suffix

\* Path.glob("astrbot_backup_*.zip")
MatchesGlob(n) ==
    /\ Len(n) >= Len(Prefix) + Len(Suffix)
    /\ SubSeq(n, 1, Len(Prefix)) = Prefix
    /\ SubSeq(n, Len(n) - Len(Suffix) + 1, Len(n)) = Suffix

\* files of the destination directory that are no archives
OtherFiles == {<<"notes", ".txt">>, <<"astrbot_backup_", "old", ".bak">>,
               <<"astrbot_backup", ".zip">>}
\* a file the user named like an archive
ForeignArchive == <<"astrbot_backup_", "manual", ".zip">>

File(m, c) == [mtime |-> m, closed |-> c]

\* the destination directories the plugin may find when it is loaded: n
\* archives of earlier runs, named after the seconds 0..n-1, and older files
\* of the user. The archives' modified times are seconds of 1..MaxOld, in
\* every order and with every tie (the times in use are 1..k for some k).
OldArchives(n) == {GenerateBackupFilename(t) : t \in 0..(n-1)}
OldMtimes(n) ==
    {m \in [0..(n-1) -> 1..MaxOld] :
       \A k \in 1..MaxOld :
         (\E t \in 0..(n-1) : m[t] = k) => \A j \in 1..k : \E t \in 0..(n-1) : m[t] = j}
OldDirs ==
    UNION {
      { [f \in OldArchives(n) \cup OtherFiles \cup {ForeignArchive} |->
            IF f \in OldArchives(n)
            THEN File(m[CHOOSE t \in 0..(n-1) : GenerateBackupFilename(t) = f], TRUE)
            ELSE File(0, TRUE)]
        : m \in OldMtimes(n) }
      : n \in 0..MaxOld }

AllFiles(d) == DOMAIN d

\* line 148: list(backup_dir.glob("astrbot_backup_*.zip"))
Archives(d) == {n \in DOMAIN d : MatchesGlob(n)}

Remove(d, n) == [f \in (DOMAIN d) \ {n} |-> d[f]]
Put(d, n, rec) == [f \in (DOMAIN d) \cup {n} |-> IF f = n THEN rec ELSE d[f]]

\* ------------------------------------------------- the root directory
\* A path is a sequence of names, relative to self.astrbot_path.
\* line 77: the default exclude_dirs
ExcludeDirs == {<<".venv">>, <<"__pycache__">>, <<".git">>, <<"node_modules">>}
\* line 109
ExcludeSuffixes == {".pyc", ".log", ".tmp"}

\* the tokens that are a dot and an extension
DotTokens == {".zip", ".bin", ".so", ".log", ".pyc", ".tmp", ".bak", ".txt"}

\* Path.suffix: the last dotted part of the name; a name that is nothing but
\* a dotted part (".log", ".venv") has no suffix
PathSuffix(n) == IF Len(n) >= 2 /\ n[Len(n)] \in DotTokens THEN n[Len(n)] ELSE ""

\* lines 74-84, for the directory name that line 104 passes: Path(d).parts is
\* the name itself
ShouldExclude(d) == d \in ExcludeDirs

\* line 109: file_path.suffix in ['.pyc', '.log', '.tmp']
SuffixExcluded(n) == PathSuffix(n) \in ExcludeSuffixes

NeverBackupZip(n) == FALSE

\* line 112: name.startswith('astrbot_backup_') and suffix == '.zip'
IsBackupZip(n) == SubSeq(n, 1, 1) = Prefix /\ PathSuffix(n) = ".zip"

\* the files a root directory may hold
TreeFiles ==
    { << <<"app">>, <<"main", ".bin">> >>,
      << <<"app">>, <<".venv">>, <<"lib", ".so">> >>,
      << <<"app">>, <<"cache", ".log">> >>,
      << <<"app">>, <<"astrbot_backup_", "old", ".zip">> >>,
      << <<"node_modules">>, <<"app">>, <<"main", ".bin">> >>,
      << <<"astrbot_backup_", "d", ".zip">>, <<"main", ".bin">> >>,
      << <<".git">> >>,
      << <<".tmp">> >> }
Trees == {t \in SUBSET TreeFiles : Cardinality(t) <= MaxFiles}

\* lines 61-67: the destination directory is the parent of the root
\* directory, or a configured absolute path, which may lie under the root
Outside == << <<"..">> >>
Dests == {Outside, <<>>, << <<"backups">> >>}

\* the files under the root directory: those of the tree and, when the
\* destination directory lies under the root, those of the destination
UnderRoot(t, dst, d) ==
    t \cup (IF dst = Outside THEN {} ELSE {dst \o <<n>> : n \in DOMAIN d})

\* os.walk, line 102: the files and the directories of the directory at p
FilesAt(paths, p) ==
    {f[Len(f)] : f \in {g \in paths : Len(g) = Len(p) + 1 /\ SubSeq(g, 1, Len(p)) = p}}
DirsAt(paths, p) ==
    {f[Len(p) + 1] : f \in {g \in paths : Len(g) > Len(p) + 1 /\ SubSeq(g, 1, Len(p)) = p}}

\* the walk of one _create_backup before its first step: the root is to be
\* visited and nothing is written
NoWalk == [stack |-> {<<>>}, entries |-> {}]

\* ------------------------------------------------------------- the state
\* the locals of one _create_backup call (listed: the glob's result, backup_files:
\* the sorted list with the sort keys, i: the position in backup_files);
\* overlapped, deleted and unlinkFailed record what happened to the run
NoRun == [pc |-> "idle", origin |-> "none", backup_filename |-> <<>>,
          listed |-> {}, backup_files |-> <<>>, i |-> 0, result |-> "none",
          overlapped |-> FALSE, deleted |-> {}, unlinkFailed |-> FALSE]

InProgress(r) == run[r].pc \notin {"idle", "done"}

\* croniter(cron_expr, t).get_next(): the period of the expression, seconds;
\* 0 stands for an expression croniter rejects
CronExpressions == {"* * * * *", "*/5 * * * *", "malformed"}
CronPeriod(expr) ==
    CASE expr = "* * * * *" -> 60
      [] expr = "*/5 * * * *" -> 300
      [] OTHER -> 0
CronValid(expr) == CronPeriod(expr) > 0
GetNextNotStrict(expr, t) ==
    ((t + CronPeriod(expr) - 1) \div CronPeriod(expr)) * CronPeriod(expr)

GetNext(expr, t) == ((t \div CronPeriod(expr)) + 1) * CronPeriod(expr)

NoTask == [pc |-> "none", wakeAt |-> 0, polls |-> 0, rest |-> 0, run |-> 0]

Init ==
    /\ now = MaxOld + 1
    /\ fine = 0
    /\ dir \in OldDirs
    /\ max_backups \in 0..2
    /\ cron_expression \in CronExpressions
    /\ stop_backup = FALSE
    /\ run = [r \in RunIds |-> NoRun]
    /\ started = 0
    /\ task = NoTask
    /\ cancelReq = FALSE
    /\ term = [pc |-> "idle", calls |-> 0]
    /\ stopAt = [set |-> FALSE, time |-> 0, pc |-> "none"]
    /\ tree \in Trees
    /\ dest \in Dests
    /\ walk = [r \in RunIds |-> NoWalk]
    /\ reply = "none"

\* --------------------------------------------------------- _create_backup
\* asyncio.to_thread(self._create_backup) and lines 89-93: the thread starts
\* and names its archive after the current second. Every run in progress
\* now overlaps another one.
Begin(r, origin) ==
    LET others == \E q \in RunIds : InProgress(q)
    IN [q \in RunIds |->
          IF q = r
          THEN [NoRun EXCEPT !.pc = "open", !.origin = origin,
                             !.backup_filename = GenerateBackupFilename(now),
                             !.overlapped = others]
          ELSE IF InProgress(q) THEN [run[q] EXCEPT !.overlapped = TRUE]
          ELSE run[q]]

\* lines 133-138: except Exception -> success False
Fail(r) == [run EXCEPT ![r] = [NoRun EXCEPT !.pc = "done", !.result = "failure",
                                 !.origin = run[r].origin,
                                 !.backup_filename = run[r].backup_filename]]

\* lines 96-101: mkdir and ZipFile(backup_file, 'w'): the file is created, or
\* truncated when it exists; or the open raises
OpenArchive(r) ==
    /\ run[r].pc = "open"
    /\ \E ok \in BOOLEAN :
         IF ok
         THEN /\ dir' = Put(dir, run[r].backup_filename, File(now, FALSE))
              /\ run' = [run EXCEPT ![r].pc = "write"]
         ELSE /\ run' = Fail(r)
              /\ UNCHANGED dir
    /\ UNCHANGED <<clockVars, configVars, walkVars, reply, schedVars, started>>

\* a write to the open file: the path's modified time follows, when the path
\* is still linked to the file
Touch(d, n, closed) ==
    IF n \in DOMAIN d THEN Put(d, n, File(now, closed)) ELSE d

\* lines 102-116, one zipf.write, with the walk and the name of the entry
\* left out (WalkDir has them)
WriteEntry(r) ==
    /\ run[r].pc = "write"
    /\ dir' = Touch(dir, run[r].backup_filename, FALSE)
    /\ UNCHANGED <<clockVars, configVars, walkVars, reply, schedVars, started, run>>

SkipNoFile(n) == FALSE

\* lines 109-113: the files the walk leaves out
SkipFile(n) == SuffixExcluded(n) \/ IsBackupZip(n)

\* lines 102-116, one directory of os.walk: the excluded directories are
\* taken from dirs, so the walk does not descend into them; every file that
\* is not left out is written under its path relative to the root. The
\* directories are visited in the order the system lists them.
WalkDir(r) ==
    /\ run[r].pc = "write"
    /\ \E top \in walk[r].stack :
         LET paths == UnderRoot(tree, dest, dir)
             dirs == {d \in DirsAt(paths, top) : ~ShouldExclude(d)}
             files == {f \in FilesAt(paths, top) : ~SkipFile(f)}
         IN /\ walk' = [walk EXCEPT
                          ![r].stack = (@ \ {top}) \cup {top \o <<d>> : d \in dirs},
                          ![r].entries = @ \cup {top \o <<f>> : f \in files}]
            /\ dir' = IF files = {} THEN dir
                      ELSE Touch(dir, run[r].backup_filename, FALSE)
    /\ UNCHANGED <<clockVars, configVars, tree, dest, reply, schedVars, started, run>>

\* lines 102-116 to the end of the with block: the walk ends and the archive
\* is closed, or a read or write raises
CloseArchive(r) ==
    /\ run[r].pc = "write"
    /\ \E ok \in BOOLEAN :
         IF ok
         THEN /\ dir' = Touch(dir, run[r].backup_filename, TRUE)
              /\ run' = [run EXCEPT ![r].pc = "stat"]
         ELSE /\ run' = Fail(r)
              /\ UNCHANGED dir
    /\ UNCHANGED <<clockVars, configVars, walkVars, reply, schedVars, started>>

\* the same with the walk in view: the archive is closed when no directory
\* is left to visit
WalkEnd(r) ==
    /\ CloseArchive(r)
    /\ run'[r].pc = "stat" => walk[r].stack = {}

\* lines 118-121: backup_file.stat() raises when the path is gone
StatArchive(r) ==
    /\ run[r].pc = "stat"
    /\ run' = IF run[r].backup_filename \in DOMAIN dir
              THEN [run EXCEPT ![r].pc = "cleanup"]
              ELSE Fail(r)
    /\ UNCHANGED <<clockVars, configVars, walkVars, reply, schedVars, started, dir>>

\* --------------------------------------------------- _cleanup_old_backups
\* the orders list.sort(key=st_mtime, reverse=True) can leave the files in:
\* newest first, files of equal modified time in the order glob listed them,
\* which is any order
RECURSIVE SortedOldestFirst(_, _)
SortedOldestFirst(S, d) ==
    IF S = {} THEN {<<>>}
    ELSE UNION {
           { <<[name |-> n, mtime |-> d[n].mtime]>> \o rest :
               rest \in SortedOldestFirst(S \ {n}, d) }
           : n \in {x \in S : \A y \in S : d[x].mtime <= d[y].mtime} }

RECURSIVE SortedNewestFirst(_, _)
SortedNewestFirst(S, d) ==
    IF S = {} THEN {<<>>}
    ELSE UNION {
           { <<[name |-> n, mtime |-> d[n].mtime]>> \o rest :
               rest \in SortedNewestFirst(S \ {n}, d) }
           : n \in {x \in S : \A y \in S : d[x].mtime >= d[y].mtime} }

\* line 155: the loop over backup_files[max_backups:] goes on at position i,
\* or it is over and _cleanup_old_backups returns (line 124)
AfterUnlink(files, i) == IF i <= Len(files) THEN "unlink" ELSE "return"

RetentionOffBelowZero(k) == k < 0

\* lines 144-145: if max_backups <= 0: return
RetentionOff(k) == k <= 0

SliceStartOneLate(k) == k + 2

\* line 155: backup_files[max_backups:] starts at position max_backups + 1
SliceStart(k) == k + 1

\* lines 143-148: retention is off for max_backups <= 0; else glob the archives
CleanupList(r) ==
    /\ run[r].pc = "cleanup"
    /\ run' = IF RetentionOff(max_backups)
              THEN [run EXCEPT ![r].pc = "return"]
              ELSE [run EXCEPT ![r].pc = "sort", ![r].listed = Archives(dir)]
    /\ UNCHANGED <<clockVars, configVars, walkVars, reply, schedVars, started, dir>>

\* lines 151-154: the sort stats every listed file; a file that is gone by
\* now raises, and the outer except (162-163) ends the cleanup. Deletion
\* starts behind the first max_backups files.
CleanupSort(r) ==
    /\ run[r].pc = "sort"
    /\ IF run[r].listed \subseteq DOMAIN dir
       THEN \E s \in SortedNewestFirst(run[r].listed, dir) :
              run' = [run EXCEPT ![r].pc = AfterUnlink(s, SliceStart(max_backups)),
                                 ![r].backup_files = s,
                                 ![r].i = SliceStart(max_backups)]
       ELSE run' = [run EXCEPT ![r].pc = "return"]
    /\ UNCHANGED <<clockVars, configVars, walkVars, reply, schedVars, started, dir>>

\* lines 155-160, one iteration: old_backup.unlink(); a failure (the file is
\* gone, or the system refuses: at most one refusal in a cleanup) is logged
\* and the loop goes on
CleanupUnlink(r) ==
    /\ run[r].pc = "unlink"
    /\ LET old_backup == run[r].backup_files[run[r].i].name
       IN \E refused \in (IF run[r].unlinkFailed THEN {FALSE} ELSE BOOLEAN) :
            IF old_backup \in DOMAIN dir /\ ~refused
            THEN /\ dir' = Remove(dir, old_backup)
                 /\ run' = [run EXCEPT ![r].i = @ + 1,
                               ![r].pc = AfterUnlink(run[r].backup_files, run[r].i + 1),
                               ![r].deleted = @ \cup {old_backup}]
            ELSE /\ UNCHANGED dir
                 /\ run' = [run EXCEPT ![r].i = @ + 1,
                               ![r].pc = AfterUnlink(run[r].backup_files, run[r].i + 1),
                               ![r].unlinkFailed = TRUE]
    /\ UNCHANGED <<clockVars, configVars, walkVars, reply, schedVars, started>>

ReturnCleanupRaises(r) ==
    /\ run[r].pc = "return"
    /\ run' = IF run[r].unlinkFailed THEN Fail(r)
              ELSE [run EXCEPT ![r] = [NoRun EXCEPT !.pc = "done", !.result = "success",
                                         !.origin = run[r].origin,
                                         !.backup_filename = run[r].backup_filename]]
    /\ UNCHANGED <<clockVars, configVars, walkVars, reply, schedVars, started, dir>>

\* lines 126-131: success True with the path of the archive
ReturnSuccess(r) ==
    /\ run[r].pc = "return"
    /\ run' = [run EXCEPT ![r] = [NoRun EXCEPT !.pc = "done", !.result = "success",
                              !.origin = run[r].origin,
                              !.backup_filename = run[r].backup_filename]]
    /\ UNCHANGED <<clockVars, configVars, walkVars, reply, schedVars, started, dir>>

\* --------------------------------------------------------- manual_backup
ManualBackupUngated(isAdmin) ==
    /\ task.pc # "none"
    /\ started < MaxRuns
    /\ reply' = IF isAdmin THEN "started" ELSE "denied"
    /\ run' = Begin(started + 1, "manual")
    /\ started' = started + 1
    /\ UNCHANGED <<clockVars, configVars, walkVars, schedVars, dir>>

\* lines 215-222: the command of a user who is no administrator ends at the
\* permission check; an administrator's starts an archive operation. The
\* host serves commands once the plugin is loaded (initialize was called).
ManualBackup(isAdmin) ==
    /\ task.pc # "none"
    /\ started < MaxRuns
    /\ IF isAdmin
       THEN /\ reply' = "started"
            /\ run' = Begin(started + 1, "manual")
            /\ started' = started + 1
       ELSE /\ reply' = "denied"
            /\ UNCHANGED <<run, started>>
    /\ UNCHANGED <<clockVars, configVars, walkVars, schedVars, dir>>

\* ------------------------------------------------ _scheduled_backup_task
Sleeping == task.pc \in {"poll", "rest", "cooldown"}
TaskExists == task.pc # "none"

\* line 279: self.backup_task and not self.backup_task.done()
TaskLive == task.pc \in {"created", "poll", "rest", "cooldown", "running"}

\* lines 170-188 and 201-204, from the loop condition to the next await: the
\* loop ends when the stop flag is set; croniter raises on a malformed
\* expression and the handler sleeps for the cooldown; else the loop sleeps
\* towards next_run, a minute at a time and then for the remainder.
\* get_next is later than the time it starts from, so wait_seconds > 0.
LoopTop ==
    IF stop_backup THEN [NoTask EXCEPT !.pc = "done"]
    ELSE IF ~CronValid(cron_expression)
    THEN [NoTask EXCEPT !.pc = "cooldown", !.wakeAt = now + Cooldown]
    ELSE LET next_run == GetNext(cron_expression, now)
             wait_seconds == next_run - now
         IN IF wait_seconds \div SleepIncrement > 0
            THEN [NoTask EXCEPT !.pc = "poll", !.wakeAt = now + SleepIncrement,
                                !.polls = (wait_seconds \div SleepIncrement) - 1,
                                !.rest = wait_seconds % SleepIncrement]
            ELSE [NoTask EXCEPT !.pc = "rest",
                                !.wakeAt = now + (wait_seconds % SleepIncrement)]

\* line 273: asyncio.create_task
Initialize ==
    /\ task.pc = "none"
    /\ task' = [NoTask EXCEPT !.pc = "created"]
    /\ UNCHANGED <<clockVars, configVars, walkVars, reply, dir, run, started, stop_backup,
                   cancelReq, term, stopAt>>

\* lines 167-170: the coroutine's first step
TaskStart ==
    /\ task.pc = "created"
    /\ ~cancelReq
    /\ task' = LoopTop
    /\ UNCHANGED <<clockVars, configVars, walkVars, reply, dir, run, started, stop_backup,
                   cancelReq, term, stopAt>>

\* lines 182-188: a sleep(60) is over; the next one begins, or the remainder
\* sleep; the loop ends when the stop flag is set
PollWake ==
    /\ task.pc = "poll"
    /\ now >= task.wakeAt
    /\ ~cancelReq
    /\ task' = IF stop_backup THEN [NoTask EXCEPT !.pc = "done"]
               ELSE IF task.polls > 0
               THEN [task EXCEPT !.wakeAt = now + SleepIncrement, !.polls = @ - 1]
               ELSE [NoTask EXCEPT !.pc = "rest", !.wakeAt = now + task.rest]
    /\ UNCHANGED <<clockVars, configVars, walkVars, reply, dir, run, started, stop_backup,
                   cancelReq, term, stopAt>>

RestWakeUncancelled ==
    /\ task.pc = "rest"
    /\ now >= task.wakeAt
    /\ started < MaxRuns
    /\ run' = Begin(started + 1, "scheduled")
    /\ started' = started + 1
    /\ task' = [NoTask EXCEPT !.pc = "running", !.run = started + 1]
    /\ UNCHANGED <<clockVars, configVars, walkVars, reply, dir, stop_backup,
                   cancelReq, term, stopAt>>

\* lines 188-192: the remainder sleep is over and the archive operation starts
\* in a worker thread
RestWake ==
    /\ task.pc = "rest"
    /\ now >= task.wakeAt
    /\ ~cancelReq
    /\ started < MaxRuns
    /\ run' = Begin(started + 1, "scheduled")
    /\ started' = started + 1
    /\ task' = [NoTask EXCEPT !.pc = "running", !.run = started + 1]
    /\ UNCHANGED <<clockVars, configVars, walkVars, reply, dir, stop_backup, cancelReq, term, stopAt>>

ThreadStarted(r) == run[r].pc # "idle"

\* line 192: await asyncio.to_thread(...) resumes when the thread has returned
ThreadReturned(r) == run[r].pc = "done"

RunDoneRaises ==
    /\ task.pc = "running"
    /\ ThreadReturned(task.run)
    /\ ~cancelReq
    /\ task' = IF run[task.run].result = "failure"
               THEN [NoTask EXCEPT !.pc = "cooldown", !.wakeAt = now + Cooldown]
               ELSE LoopTop
    /\ UNCHANGED <<clockVars, configVars, walkVars, reply, dir, run, started, stop_backup,
                   cancelReq, term, stopAt>>

\* lines 192-199 and on to the next await: the thread's result arrives, is
\* logged, and the loop goes round
RunDone ==
    /\ task.pc = "running"
    /\ ThreadReturned(task.run)
    /\ ~cancelReq
    /\ task' = LoopTop
    /\ UNCHANGED <<clockVars, configVars, walkVars, reply, dir, run, started, stop_backup,
                   cancelReq, term, stopAt>>

CooldownWakeExit ==
    /\ task.pc = "cooldown"
    /\ now >= task.wakeAt
    /\ ~cancelReq
    /\ task' = [NoTask EXCEPT !.pc = "done"]
    /\ UNCHANGED <<clockVars, configVars, walkVars, reply, dir, run, started, stop_backup,
                   cancelReq, term, stopAt>>

\* line 204 and on: the cooldown is over and the loop goes round
CooldownWake ==
    /\ task.pc = "cooldown"
    /\ now >= task.wakeAt
    /\ ~cancelReq
    /\ task' = LoopTop
    /\ UNCHANGED <<clockVars, configVars, walkVars, reply, dir, run, started, stop_backup,
                   cancelReq, term, stopAt>>

\* ------------------------------------------------------------- terminate
CancelForgotten == FALSE

\* line 280: backup_task.cancel()
CancelTask == TRUE

\* lines 277-282: set the stop flag; cancel the task and await it when it is
\* not done
Terminate ==
    /\ term.pc # "awaiting"
    /\ term.calls < MaxTerminate
    /\ stop_backup' = TRUE
    /\ IF TaskLive
       THEN /\ cancelReq' = CancelTask
            /\ term' = [pc |-> "awaiting", calls |-> term.calls + 1]
       ELSE /\ UNCHANGED cancelReq
            /\ term' = [pc |-> "returned", calls |-> term.calls + 1]
    /\ stopAt' = IF stopAt.set THEN stopAt
                 ELSE [set |-> TRUE, time |-> now, pc |-> task.pc]
    /\ UNCHANGED <<clockVars, configVars, walkVars, reply, dir, run, started, task>>

\* the task's pending await raises CancelledError, which no handler of the
\* coroutine catches (except Exception, lines 201-204): the task ends. The
\* worker thread of a run in progress is not interrupted.
DeliverCancel ==
    /\ cancelReq
    /\ TaskLive
    /\ task' = [NoTask EXCEPT !.pc = "cancelled"]
    /\ cancelReq' = FALSE
    /\ UNCHANGED <<clockVars, configVars, walkVars, reply, dir, run, started, stop_backup,
                   term, stopAt>>

\* lines 282-285: the awaited task is done
TerminateReturn ==
    /\ term.pc = "awaiting"
    /\ task.pc \in {"done", "cancelled"}
    /\ term' = [term EXCEPT !.pc = "returned"]
    /\ UNCHANGED <<clockVars, configVars, walkVars, reply, dir, run, started, stop_backup,
                   task, cancelReq, stopAt>>

\* ------------------------------------------------------------------ time
\* a step of the event loop is ready: the coroutines take no time
LoopReady ==
    \/ cancelReq /\ TaskLive
    \/ task.pc = "created"
    \/ Sleeping /\ now >= task.wakeAt
    \/ task.pc = "running" /\ ThreadReturned(task.run)
    \/ term.pc = "awaiting" /\ task.pc \in {"done", "cancelled"}

\* the clock advances: to the end of the pending sleep, or by a second, or
\* by more than a minute while the scheduled archive operation is in progress
TickSteps ==
    (IF Sleeping THEN {task.wakeAt - now} ELSE {})
    \cup (IF fine < MaxFine /\ (Sleeping => now + 1 <= task.wakeAt) THEN {1} ELSE {})
    \cup (IF task.pc = "running" /\ InProgress(task.run) THEN {MaxRunSeconds} ELSE {})

Tick(d, horizon) ==
    /\ now < horizon
    /\ ~LoopReady
    /\ d \in TickSteps
    /\ d > 0
    /\ now' = now + d
    /\ fine' = IF d = 1 THEN fine + 1 ELSE fine
    /\ UNCHANGED <<configVars, walkVars, reply, schedVars, dir, run, started>>

RunStep(r) ==
    \/ OpenArchive(r)
    \/ WriteEntry(r)
    \/ CloseArchive(r)
    \/ StatArchive(r)
    \/ CleanupList(r)
    \/ CleanupSort(r)
    \/ CleanupUnlink(r)
    \/ ReturnSuccess(r)

\* ---------------------------------------------------------------- Spec
\* The archive operations over the destination directory: manual commands
\* and the scheduler's runs of the first minute.
Next ==
    \/ \E isAdmin \in BOOLEAN : ManualBackup(isAdmin)
    \/ \E r \in RunIds : RunStep(r)
    \/ Initialize
    \/ TaskStart
    \/ RestWake
    \/ RunDone
    \/ \E d \in {1, task.wakeAt - now} : Tick(d, MaxTime)

\* the walk is left to SpecWalk: here WriteEntry stands for its writes
InitNoTree == Init /\ tree = {} /\ dest = Outside

InitEveryMinute == InitNoTree /\ cron_expression = "* * * * *"

Spec == InitEveryMinute /\ [][Next]_vars

\* ----------------------------------------------------------- SpecSerial
\* The same, with no two archive operations at the same time: a command or
\* the scheduled run starts when no archive operation is in progress.
NoneInProgress == \A r \in RunIds : ~InProgress(r)

NextSerial ==
    \/ \E isAdmin \in BOOLEAN : NoneInProgress /\ ManualBackup(isAdmin)
    \/ \E r \in RunIds : RunStep(r)
    \/ Initialize
    \/ TaskStart
    \/ NoneInProgress /\ RestWake
    \/ RunDone
    \/ \E d \in {1, task.wakeAt - now} : Tick(d, MaxTime)

SpecSerial == InitEveryMinute /\ [][NextSerial]_vars

\* ------------------------------------------------------- SpecLifecycle
\* The scheduler from initialize to terminate, over several waits, with the
\* archive operations it starts; the directory holds no earlier archive of
\* the plugin and no administrator sends the manual command.
NextLifecycle ==
    \/ ManualBackup(FALSE)
    \/ \E r \in RunIds : RunStep(r)
    \/ Initialize
    \/ TaskStart
    \/ PollWake
    \/ RestWake
    \/ RunDone
    \/ CooldownWake
    \/ Terminate
    \/ DeliverCancel
    \/ TerminateReturn
    \/ \E d \in {1, task.wakeAt - now, MaxRunSeconds} : Tick(d, MaxLifeTime)

InitLifecycle == InitNoTree /\ max_backups = 1 /\ Archives(dir) = {ForeignArchive}

SpecLifecycle == InitLifecycle /\ [][NextLifecycle]_vars

\* ------------------------------------------------------------ SpecWalk
\* The archive operations of manual commands with the walk of the root
\* directory in view, over every root directory of up to MaxFiles files and
\* every place of the destination directory.
RunStepWalk(r) ==
    \/ OpenArchive(r)
    \/ WalkDir(r)
    \/ WalkEnd(r)
    \/ StatArchive(r)
    \/ CleanupList(r)
    \/ CleanupSort(r)
    \/ CleanupUnlink(r)
    \/ ReturnSuccess(r)

NextWalk ==
    \/ ManualBackup(TRUE)
    \/ \E r \in RunIds : RunStepWalk(r)
    \/ Initialize
    \/ TaskStart
    \/ Tick(1, MaxTime)

InitWalk ==
    /\ Init
    /\ cron_expression = "*/5 * * * *"
    /\ max_backups = 2
    /\ Archives(dir) = {ForeignArchive}

SpecWalk == InitWalk /\ [][NextWalk]_vars

\* ================================================================ claims
Max0(x) == IF x > 0 THEN x ELSE 0

\* the archive naming pattern, prefix "astrbot_backup_" and suffix ".zip"
NamedLikeArchive(n) ==
    Len(n) >= 2 /\ n[1] = "astrbot_backup_" /\ n[Len(n)] = ".zip"

Entries(r) == {run[r].backup_files[k] : k \in 1..Len(run[r].backup_files)}
DistinctMtimes(r) ==
    \A a, b \in Entries(r) : a.name # b.name => a.mtime # b.mtime

\* a run that no other run overlapped has finished its cleanup, which listed
\* more than max_backups > 0 archives and met no failing deletion
PrunedAlone(r) ==
    /\ run[r].pc = "return"
    /\ ~run[r].overlapped
    /\ max_backups > 0
    /\ Len(run[r].backup_files) > max_backups
    /\ ~run[r].unlinkFailed

\* C1: with N listed archives of distinct modified times, 0 < K < N and no
\* failing deletion, one cleanup deletes exactly the N-K least recently
\* modified archives and leaves exactly the K most recently modified ones.
C1_DeletesOldest ==
    \A r \in RunIds :
      PrunedAlone(r) /\ DistinctMtimes(r) =>
        LET N == Len(run[r].backup_files)
            K == max_backups
            Oldest == {f \in Entries(r) :
                         Cardinality({g \in Entries(r) : g.mtime > f.mtime}) >= K}
            Newest == {f \in Entries(r) :
                         Cardinality({g \in Entries(r) : g.mtime > f.mtime}) < K}
        IN /\ run[r].deleted = {f.name : f \in Oldest}
           /\ Cardinality(run[r].deleted) = N - K
           /\ Archives(dir) = {f.name : f \in Newest}

C1_Witness ==
    \E r \in RunIds :
      /\ PrunedAlone(r) /\ DistinctMtimes(r)
      /\ Cardinality(run[r].deleted) >= 2
      /\ Cardinality(Archives(dir)) >= 2

\* C2, as stated: with N archives and maxKept = K < N, after the cleanup
\* exactly N-K archives remain.
C2_Original ==
    \A r \in RunIds :
      (run[r].pc = "return" /\ ~run[r].overlapped /\ ~run[r].unlinkFailed) =>
        LET N == Cardinality(Archives(dir)) + Cardinality(run[r].deleted)
            K == max_backups
        IN K < N => Cardinality(Archives(dir)) = N - K

\* C2, amended: with N archives, 0 < K < N and no failing deletion, after
\* the cleanup exactly K archives remain (N-K are deleted), and no deleted
\* archive was modified later than one that remains.
C2_KeepsNewestK ==
    \A r \in RunIds :
      PrunedAlone(r) =>
        /\ Cardinality(Archives(dir)) = max_backups
        /\ Cardinality(run[r].deleted) = Len(run[r].backup_files) - max_backups
        /\ \A f \in Entries(r) :
             f.name \in run[r].deleted =>
               \A kept \in Archives(dir) : dir[kept].mtime >= f.mtime

C2_Witness ==
    \E r \in RunIds :
      /\ PrunedAlone(r)
      /\ Len(run[r].backup_files) = max_backups + 2
      /\ ~DistinctMtimes(r)

\* C3: with max_backups <= 0 no step of any run, manual or scheduled, removes
\* a file from the destination directory.
C3_NoDeletionWhenDisabled ==
    [][max_backups <= 0 => AllFiles(dir) \subseteq AllFiles(dir')]_vars

C3_Witness ==
    /\ max_backups <= 0
    /\ \E r, q \in RunIds :
         /\ run[r].origin = "manual" /\ run[r].result = "success"
         /\ run[q].origin = "scheduled" /\ run[q].result = "success"
    /\ Cardinality(Archives(dir)) > 2

C5_SuccessMeansArchiveExists ==
    \A r \in RunIds :
      run[r].pc = "return" => run[r].backup_filename \in AllFiles(dir)

\* C6, as stated: no two archive operations write to the same path.
C6_UniquePaths ==
    \A r, q \in RunIds :
      (/\ r # q
       /\ run[r].pc \notin {"idle", "open", "done"}
       /\ run[q].pc \notin {"idle", "open", "done"})
      => run[r].backup_filename # run[q].backup_filename

\* C7, as stated: no cleanup deletes an archive that an overlapping run is
\* still writing.
C7_NeverDeletesArchiveBeingWritten ==
    \A q \in RunIds :
      run[q].pc = "write" => run[q].backup_filename \in AllFiles(dir)

ScheduledInProgress == {r \in RunIds : run[r].origin = "scheduled" /\ InProgress(r)}

\* C8: the scheduler loop has at most one archive operation of its own in
\* progress, and none while it computes the next run time or waits.
C8_OneScheduledRunAtATime ==
    /\ Cardinality(ScheduledInProgress) <= 1
    /\ task.pc \in {"poll", "rest", "cooldown"} => ScheduledInProgress = {}

C8_Witness ==
    /\ task.pc = "running"
    /\ \E r \in RunIds :
         r # task.run /\ run[r].origin = "scheduled" /\ run[r].pc = "done"

\* C9: when terminate is called while the loop waits (a minute sleep, the
\* remainder sleep or the cooldown), the task has ended by the time one
\* polling increment has passed since the call.
C9_StopObservedWithinIncrement ==
    (stopAt.set /\ stopAt.pc \in {"poll", "rest", "cooldown"} /\ TaskLive)
      => now - stopAt.time <= SleepIncrement

C9_Witness ==
    /\ stopAt.set /\ stopAt.pc = "poll"
    /\ cron_expression = "*/5 * * * *"
    /\ task.pc = "cancelled"
    /\ term.pc = "returned"

\* C10, as stated: once terminate has returned, no archive operation that the
\* scheduler started is in progress.
C10_NoScheduledWorkAfterTerminate ==
    term.pc = "returned" => ScheduledInProgress = {}

\* C11: with a malformed cron expression the loop, at each computation of the
\* next run (its first step and every wake from the cooldown), sleeps for the
\* cooldown of one hour; it wakes no earlier than that; it starts no archive
\* operation; and it ends only when the stop flag is set or it is cancelled.
C11_MalformedCronCoolsDown ==
    [][cron_expression = "malformed" =>
         /\ (task.pc \in {"created", "cooldown"} /\ task' # task
                /\ task'.pc # "cancelled")
              => /\ IF stop_backup THEN task'.pc = "done"
                    ELSE task'.pc = "cooldown" /\ task'.wakeAt = now + Cooldown
                 /\ task.pc = "cooldown" => now >= task.wakeAt
         /\ task'.pc \notin {"poll", "rest", "running"}
         /\ started' = started /\ run' = run]_vars

C11_Witness ==
    /\ cron_expression = "malformed"
    /\ ~stop_backup
    /\ task.pc = "cooldown"
    /\ now >= Cooldown /\ task.wakeAt = now + Cooldown
    /\ started = 0

\* the time the loop's sleeps lead to: the end of the remainder sleep
Target(t) ==
    IF t.pc = "poll" THEN t.wakeAt + t.polls * SleepIncrement + t.rest
    ELSE t.wakeAt

\* x is the first occurrence of the cron expression strictly after time t0
FirstOccurrenceAfter(x, t0) ==
    LET P == CronPeriod(cron_expression)
    IN P > 0 /\ x % P = 0 /\ x > t0 /\ x - P <= t0

\* C12: a scheduled run that fails ends in its thread with the result
\* failure; the loop receives the result, does not end (unless the stop flag
\* is set), and sleeps towards the first occurrence after the current time.
C12_FailedRunIsOneMissedCycle ==
    [][\A r \in RunIds :
         /\ (run[r].pc \in {"open", "write", "stat"} /\ run'[r].pc = "done"
                /\ run[r].origin = "scheduled")
              => run'[r].result = "failure" /\ task' = task
         /\ (task.pc = "running" /\ task.run = r /\ run[r].result = "failure"
                /\ task' # task /\ task'.pc # "cancelled")
              => IF stop_backup THEN task'.pc = "done"
                 ELSE /\ task'.pc \in {"poll", "rest"}
                      /\ FirstOccurrenceAfter(Target(task'), now)]_vars

C12_Witness ==
    /\ ~stop_backup
    /\ task.pc = "running"
    /\ \E r \in RunIds : r # task.run /\ run[r].origin = "scheduled"
                          /\ run[r].result = "failure"

\* the files under the root that no directory named in the excluded set
\* contains, whose suffix is not excluded and whose name is not that of an
\* archive
IncludedFiles ==
    {p \in UnderRoot(tree, dest, dir) :
       /\ \A k \in 1..(Len(p) - 1) : p[k] \notin ExcludeDirs
       /\ PathSuffix(p[Len(p)]) \notin ExcludeSuffixes
       /\ ~NamedLikeArchive(p[Len(p)])}

C14_NoArchiveInsideAnArchive ==
    \A r \in RunIds : \A p \in walk[r].entries :
      /\ p # dest \o <<run[r].backup_filename>>
      /\ ~NamedLikeArchive(p[Len(p)])

\* two overlapping runs with archives of their own have both walked the
\* destination directory, which lies under the root
C14_Witness ==
    /\ dest = << <<"backups">> >>
    /\ \E r, q \in RunIds :
         /\ run[r].pc = "write" /\ run[q].pc = "write"
         /\ run[r].backup_filename # run[q].backup_filename
         /\ {run[r].backup_filename, run[q].backup_filename} \subseteq AllFiles(dir)
         /\ walk[r].stack = {} /\ walk[q].stack = {}
         /\ dest \o << <<"notes", ".txt">> >> \in walk[r].entries \cap walk[q].entries

\* C15, as stated: after an archive operation has failed, the archive file of
\* that attempt is not in the destination directory.
C15_NoPartialArchiveAfterFailure ==
    \A r \in RunIds :
      (run[r].pc = "done" /\ run[r].result = "failure")
        => run[r].backup_filename \notin AllFiles(dir)

\* C16: whenever the loop computes the next run (at its start and after
\* every run), it sleeps towards the first occurrence strictly after the
\* current time; its sleeps keep that time; an archive operation is started
\* only at the end of the remainder sleep, at that time, and one only.
C16_NextRunFromCurrentTime ==
    [][/\ (task.pc \in {"created", "running", "cooldown"}
            /\ task'.pc \in {"poll", "rest"})
          => FirstOccurrenceAfter(Target(task'), now)
       /\ (task.pc \in {"poll", "rest"} /\ task'.pc \in {"poll", "rest"})
          => Target(task') = Target(task)
       /\ (started' # started \/ (task'.pc = "running" /\ task.pc # "running"))
          => /\ task.pc = "rest" /\ task'.pc = "running"
             /\ now = Target(task)
             /\ started' = started + 1]_vars

\* a run that began at the first minute lasted past the second one, and the
\* next run began at the third
C16_Witness ==
    /\ cron_expression = "* * * * *"
    /\ \E r, q \in RunIds :
         /\ run[r].origin = "scheduled" /\ run[q].origin = "scheduled"
         /\ run[r].backup_filename = GenerateBackupFilename(SleepIncrement)
         /\ run[q].backup_filename = GenerateBackupFilename(3 * SleepIncrement)

C18_NonAdminStartsNothing ==
    [][(reply' = "denied" /\ reply # "denied")
         => UNCHANGED <<dir, run, started, walk, task, stop_backup, cancelReq,
                        term, max_backups, cron_expression>>]_vars

\* the refusal was given while the scheduler's archive operation was running
C18_Witness ==
    /\ reply = "denied"
    /\ ~stop_backup
    /\ started = 1
    /\ task.pc = "running" /\ run[task.run].pc = "write"

\* C19: an archive operation fails only before its cleanup (at the open, in
\* the walk or at the stat) and has unlinked nothing by then; every file
\* that leaves the destination directory is unlinked by the cleanup of a
\* run, and a run that has reached its cleanup does not fail.
C19_FailedRunDeletesNothing ==
    [][/\ \A r \in RunIds :
            /\ (run'[r].result = "failure" /\ run[r].result # "failure")
                 => run[r].pc \in {"open", "write", "stat"} /\ run[r].deleted = {}
            /\ run[r].pc \in {"cleanup", "sort", "unlink", "return"}
                 => run'[r].result # "failure"
       /\ \A f \in AllFiles(dir) \ AllFiles(dir') :
            \E q \in RunIds :
              run[q].pc = "unlink" /\ run'[q].deleted = run[q].deleted \cup {f}]_vars

\* every run has failed, one of them after it had created its file, and the
\* directory holds more archives than the cleanup would keep
C19_Witness ==
    /\ max_backups = 1
    /\ started = MaxRuns
    /\ \A r \in RunIds : run[r].pc = "done" /\ run[r].result = "failure"
    /\ \E r \in RunIds : run[r].backup_filename \in Archives(dir)
    /\ Cardinality(Archives(dir)) >= MaxOld + 2

\* C20: once the stop flag is set it stays set, and the scheduler starts no
\* archive operation any more, whatever it was doing when terminate was
\* called.
C20_NoNewRunAfterStop ==
    [][stop_backup =>
         /\ stop_backup'
         /\ started' = started
         /\ \A r \in RunIds : run[r].pc = "idle" => run'[r].pc = "idle"
         /\ task'.pc = "running" => task.pc = "running"]_vars

\* terminate was called at the very end of the remainder sleep, and the
\* task ended with no archive operation started
C20_Witness ==
    /\ stop_backup
    /\ stopAt.set /\ stopAt.pc = "rest" /\ stopAt.time = SleepIncrement
    /\ task.pc = "cancelled" /\ term.pc = "returned"
    /\ started = 0
====
